---------------------------- MODULE Spec2Model ----------------------------
(* A model of the stock-frontend client: the request cache of lib/api.ts   *)
(* (class SimpleCache, portfolioAPI.getSummary / getAPIStatus,             *)
(* invalidateCache) and the dashboard handlers that use it.                *)
(*                                                                         *)
(* Five specifications share the variables:                                *)
(*   CacheSpec  the three methods of SimpleCache called with arbitrary     *)
(*              keys, payloads, TTLs and patterns while the clock runs;    *)
(*   Spec       the dashboard page: fetchData, checkAPIStatus and the      *)
(*              mutation handlers, as app/dashboard/page.tsx calls them,   *)
(*              with requests and responses in flight;                     *)
(*   ApiSpec    fetchData and the handlers together with a component that  *)
(*              calls the exported invalidateCache;                        *)
(*   MergeSpec  one edit of a ticker in components/StockTable.tsx and      *)
(*              components/EditTickerModal.tsx, with its backend calls;    *)
(*   HookSpec   saveSettings of hooks/useColumnSettings.ts with its        *)
(*              debounce timer, its requests and its reset timers.         *)
(* A payload is the version of the backend data it was read from. The      *)
(* loading, updatingStocks and checkingAPI flags of the page and the load  *)
(* of the column settings on mount are left out.                           *)
EXTENDS Integers, Sequences, FiniteSets, TLC

VARIABLES
    cache,      \* SimpleCache.cache: a Map from key to [data, timestamp]
    clock,      \* the value Date.now() returns
    ticks,      \* how many times the clock has advanced (bounds the run)
    last,       \* the most recent call of a SimpleCache method and its result
    db,         \* the backend: the version of the data it holds
    proc,       \* the async functions of the page that are running
    dash,       \* the state of DashboardPage: stocks, metrics, apiStatus, error
    started,    \* how many async functions the page has started
    failed,     \* how many GETs of the two cached endpoints have failed
    owed,       \* per key, the earliest stored-at + ttl no call has come after
    completed,  \* per key, when the latest response was stored
    invalDb,    \* the backend version when invalidateCache last ran
    stocksDb,   \* the backend: the stock records it holds, by id
    rows,       \* the stocks state of DashboardPage: the list it last loaded
    modal,      \* StockTable.editingTicker and the state of EditTickerModal
    submit,     \* the handleSubmit of the modal that is running, if any
    sent,       \* the backend calls the latest handleSubmit has issued
    auth,       \* what isAuthenticated() returns
    columnSettings, \* useColumnSettings: the columnSettings state
    saveStatus, \* useColumnSettings: 'idle', 'saving', 'success' or 'error'
    saveError,  \* useColumnSettings: the saveError state
    saveTimerRef,   \* saveTimerRef.current: the id of the last save timer
    localStorage,   \* the item 'stock-table-columns' of localStorage
    timers,     \* the setTimeout timers that have not fired
    nextTimer,  \* the id the next setTimeout returns
    inflight,   \* the settingsAPI.saveColumnSettings requests not yet answered
    requests,   \* every settingsAPI.saveColumnSettings request sent, in order
    calls,      \* every saveSettings call made, in order, with its time
    time        \* the time since the hook was mounted, in milliseconds

appVars == <<db, proc, dash, started, failed, owed, completed, invalDb>>

\* the variables of the ticker edit
mergeVars == <<stocksDb, rows, modal, submit, sent>>

\* the variables of useColumnSettings, its timers and its requests
hookVars ==
    <<auth, columnSettings, saveStatus, saveError, saveTimerRef, localStorage,
      timers, nextTimer, inflight, requests, calls, time>>

\* the variables of the cache and of the page's cached reads
pageVars == <<cache, clock, ticks, last, appVars>>

vars ==
    <<cache, clock, ticks, last, db, proc, dash, started, failed, owed,
      completed, invalDb, stocksDb, rows, modal, submit, sent, auth,
      columnSettings, saveStatus, saveError, saveTimerRef, localStorage,
      timers, nextTimer, inflight, requests, calls, time>>

----------------------------------------------------------------------------
(* Bounds of the model *)

\* the clock advances at most this many times
MaxTicks == 3

\* payloads handed to set() in CacheSpec are 1..MaxPayload
MaxPayload == 2

\* the async functions of the dashboard that may run at once
NumProcs == 2

\* the backend commits at most MaxDb - 1 mutations (its versions are 1..MaxDb)
MaxDb == 2

\* the page starts at most this many async functions in a run
MaxStarts == 4

----------------------------------------------------------------------------
(* Program constants *)

\* get() returns null on a miss; payloads are response bodies, never null
Null == 0

\* the TTL getSummary passes to cache.get
SummaryTTL == 30000

\* the TTL getAPIStatus passes to cache.get
StatusTTL == 60000

\* handleUpdateSingle waits this long before it refreshes
SingleDelay == 500

SummaryKey == "portfolio:summary"

StatusKey == "api:status"

Keys == {SummaryKey, StatusKey}

\* the TTLs tried in CacheSpec: the two the call sites use, and the 0 the
\* project notes recommend to switch caching off
TTLs == {0, SummaryTTL, StatusTTL}

\* the patterns tried with invalidate(pattern)
Patterns == {"portfolio", "api", "summary", "status", "portfolio:summary",
             "api:status", "folio:sum", ":", "s", "stocks", "Portfolio", ""}

\* the clock advances by one millisecond or by a whole summary TTL, so that
\* ages of exactly ttl and of ttl + 1 occur for both TTLs
TickSteps == {1, SummaryTTL}

Payloads == 1..MaxPayload

----------------------------------------------------------------------------
(* class SimpleCache *)

\* String.prototype.includes: pat occurs in key as a contiguous substring
includes(key, pat) ==
    \E i \in 1..(Len(key) - Len(pat) + 1) :
        SubSeq(key, i, i + Len(pat) - 1) = pat

\* Map.prototype.delete
mapDelete(c, key) == [k \in (DOMAIN c) \ {key} |-> c[k]]

\* Map.prototype.set
mapSet(c, key, entry) ==
    [k \in (DOMAIN c) \cup {key} |-> IF k = key THEN entry ELSE c[k]]

\* get() with the comparison age >= ttl: an entry aged exactly ttl is dropped
get_strict(c, key, ttl, now) ==
    IF key \notin DOMAIN c
    THEN [ret |-> Null, cache |-> c]
    ELSE LET age == now - c[key].timestamp
         IN  IF age >= ttl
             THEN [ret |-> Null, cache |-> mapDelete(c, key)]
             ELSE [ret |-> c[key].data, cache |-> c]

\* get() that skips an expired entry without deleting it
get_noPurge(c, key, ttl, now) ==
    IF key \notin DOMAIN c
    THEN [ret |-> Null, cache |-> c]
    ELSE LET age == now - c[key].timestamp
         IN  IF age > ttl
             THEN [ret |-> Null, cache |-> c]
             ELSE [ret |-> c[key].data, cache |-> c]

\* get() that restarts the lifetime of the entry it returns
get_touch(c, key, ttl, now) ==
    IF key \notin DOMAIN c
    THEN [ret |-> Null, cache |-> c]
    ELSE LET age == now - c[key].timestamp
         IN  IF age > ttl
             THEN [ret |-> Null, cache |-> mapDelete(c, key)]
             ELSE [ret |-> c[key].data,
                   cache |-> [c EXCEPT ![key].timestamp = now]]

\* SimpleCache.get(key, ttl) at Date.now() = now: the value returned and the
\* cache it leaves
get(c, key, ttl, now) ==
    IF key \notin DOMAIN c
    THEN [ret |-> Null, cache |-> c]
    ELSE LET age == now - c[key].timestamp
         IN  IF age > ttl
             THEN [ret |-> Null, cache |-> mapDelete(c, key)]
             ELSE [ret |-> c[key].data, cache |-> c]

\* set() that keeps an entry the Map already holds
set_keepExisting(c, key, data, now) ==
    IF key \in DOMAIN c
    THEN c
    ELSE mapSet(c, key, [data |-> data, timestamp |-> now])

\* set() that replaces the payload of an entry but keeps its timestamp
set_keepTimestamp(c, key, data, now) ==
    IF key \in DOMAIN c
    THEN [c EXCEPT ![key].data = data]
    ELSE mapSet(c, key, [data |-> data, timestamp |-> now])

\* SimpleCache.set(key, data) at Date.now() = now
set(c, key, data, now) ==
    mapSet(c, key, [data |-> data, timestamp |-> now])

\* String.prototype.startsWith
startsWith(key, pat) ==
    Len(pat) <= Len(key) /\ SubSeq(key, 1, Len(pat)) = pat

\* invalidate() matching the pattern as a prefix of the key only
invalidate_prefix(c, given, pattern) ==
    IF ~given \/ pattern = ""
    THEN [k \in {} |-> Null]
    ELSE [k \in {x \in DOMAIN c : ~startsWith(x, pattern)} |-> c[k]]

\* invalidate() that clears the whole Map as soon as one key matches
invalidate_clearOnMatch(c, given, pattern) ==
    IF ~given \/ pattern = "" \/ \E x \in DOMAIN c : includes(x, pattern)
    THEN [k \in {} |-> Null]
    ELSE c

\* SimpleCache.invalidate(pattern?): given is FALSE when the argument is
\* omitted; !pattern is also true of the empty string
invalidate(c, given, pattern) ==
    IF ~given \/ pattern = ""
    THEN [k \in {} |-> Null]
    ELSE [k \in {x \in DOMAIN c : ~includes(x, pattern)} |-> c[k]]

----------------------------------------------------------------------------
(* CacheSpec: the methods of SimpleCache, called in any order *)

\* last.found: whether the Map held an entry for the key when get() or set()
\* was called
NoCall ==
    [op |-> "none", key |-> "", ttl |-> 0, at |-> 0, found |-> FALSE,
     ret |-> Null]

Procs == 1..NumProcs

\* an async function that is not running. pc: where the function waits;
\* fn: the handler that started it; sentDb: the backend version when its GET
\* was sent; resp: what getSummary returned to fetchData; wrote: the backend
\* version the handler's mutation produced; wake: when the setTimeout fires;
\* epoch: invalDb when the call began; had: the Map held an entry of the key
\* when the call began
Idle ==
    [pc |-> "idle", fn |-> "none", sentDb |-> 0, resp |-> Null, wrote |-> 0,
     wake |-> 0, epoch |-> 0, had |-> FALSE]

\* a value that may be null is a sequence: empty for null, else the value
None == <<>>

Some(x) == <<x>>

\* no ticker is being edited: StockTable.editingTicker is null and no
\* EditTickerModal is mounted. done: the callbacks handleSubmit has invoked
Closed ==
    [open |-> FALSE, table |-> "none", stock |-> None, newTicker |-> "",
     loading |-> FALSE, error |-> "", duplicateStock |-> None,
     mergePreview |-> None, done |-> "none"]

\* no handleSubmit is running. stock, ticker and plan are the values of
\* stock, newTicker and mergePreview its closure holds; err is
\* err.response?.data?.error of the rejection its catch received, if any
NotSubmitting ==
    [pc |-> "idle", stock |-> None, ticker |-> "", plan |-> None,
     err |-> None]

\* the cache, the backend and the page before any stock is loaded
PageInit ==
    /\ cache = [k \in {} |-> Null]
    /\ clock = 0
    /\ ticks = 0
    /\ last = NoCall
    /\ db = 1
    /\ proc = [p \in Procs |-> Idle]
    /\ dash = [stocks |-> Null, metrics |-> Null, apiStatus |-> Null,
               error |-> FALSE]
    /\ started = 0
    /\ failed = 0
    /\ owed = [k \in Keys |-> -1]
    /\ completed = [k \in Keys |-> -1]
    /\ invalDb = 0

\* one column of the table: ColumnConfig, of which the id and the visible
\* flag are kept
Column(id, visible) == [id |-> id, visible |-> visible]

\* DEFAULT_COLUMNS, the initial columnSettings
DEFAULT_COLUMNS == <<Column("ticker", TRUE), Column("sector", TRUE)>>

\* useColumnSettings right after it mounts: the useState and useRef initial
\* values, nothing stored, no timer set and no request sent
Mounted ==
    /\ columnSettings = DEFAULT_COLUMNS
    /\ saveStatus = "idle"
    /\ saveError = None
    /\ saveTimerRef = None
    /\ localStorage = None
    /\ timers = {}
    /\ nextTimer = 1
    /\ inflight = {}
    /\ requests = <<>>
    /\ calls = <<>>
    /\ time = 0

\* the page right after it mounts: useState([]) for stocks, no modal
Init ==
    /\ PageInit
    /\ stocksDb = <<>>
    /\ rows = <<>>
    /\ modal = Closed
    /\ submit = NotSubmitting
    /\ sent = <<>>
    /\ auth = TRUE
    /\ Mounted

\* time passes between two calls
Tick(d) ==
    /\ ticks < MaxTicks
    /\ clock' = clock + d
    /\ ticks' = ticks + 1
    /\ UNCHANGED <<cache, last, appVars, mergeVars, hookVars>>

\* a caller runs cache.get(key, ttl)
CacheGet(key, ttl) ==
    LET r == get(cache, key, ttl, clock)
    IN  /\ cache' = r.cache
        /\ last' = [op |-> "get", key |-> key, ttl |-> ttl, at |-> clock,
                    found |-> key \in DOMAIN cache, ret |-> r.ret]
        /\ UNCHANGED <<clock, ticks, appVars, mergeVars, hookVars>>

\* a caller runs cache.set(key, v)
CacheSet(key, v) ==
    /\ cache' = set(cache, key, v, clock)
    /\ last' = [op |-> "set", key |-> key, ttl |-> 0, at |-> clock,
                found |-> key \in DOMAIN cache, ret |-> v]
    /\ UNCHANGED <<clock, ticks, appVars, mergeVars, hookVars>>

\* a caller runs cache.invalidate(pattern)
CacheInvalidate(pattern) ==
    /\ cache' = invalidate(cache, TRUE, pattern)
    /\ last' = [op |-> "invalidate", key |-> pattern, ttl |-> 0, at |-> clock,
                found |-> FALSE, ret |-> Null]
    /\ UNCHANGED <<clock, ticks, appVars, mergeVars, hookVars>>

\* a caller runs cache.invalidate()
CacheInvalidateAll ==
    /\ cache' = invalidate(cache, FALSE, "")
    /\ last' = [op |-> "clear", key |-> "", ttl |-> 0, at |-> clock,
                found |-> FALSE, ret |-> Null]
    /\ UNCHANGED <<clock, ticks, appVars, mergeVars, hookVars>>

CacheNext ==
    \/ \E d \in TickSteps : Tick(d)
    \/ \E key \in Keys, ttl \in TTLs : CacheGet(key, ttl)
    \/ \E key \in Keys, v \in Payloads : CacheSet(key, v)
    \/ \E pattern \in Patterns : CacheInvalidate(pattern)
    \/ CacheInvalidateAll

CacheSpec == Init /\ [][CacheNext]_vars

----------------------------------------------------------------------------
(* portfolioAPI and the dashboard page *)

\* the handlers of the page that change a stock; each awaits one stockAPI
\* call and then refreshes with fetchData
Handlers ==
    {"handlePriceUpdate", "handleFieldUpdate", "handleDelete",
     "handleUpdateSingle"}

\* the handlers whose catch refreshes when the backend answers 404
RefreshOn404 == {"handleDelete", "handleUpdateSingle"}

\* the statuses a rejected mutation carries
ErrorStatuses == {404, 500}

\* steps of the clock while the page runs: the delay of handleUpdateSingle
\* and the summary TTL
AppTickSteps == {SingleDelay, SummaryTTL}

\* the ttl each cached endpoint hands to cache.get
ttlOf(key) == IF key = SummaryKey THEN SummaryTTL ELSE StatusTTL

\* the note of a cache.get made by getSummary or getAPIStatus for key: a
\* deadline this call comes after is no longer owed a request
noteCall(key) ==
    [owed EXCEPT ![key] = IF @ >= 0 /\ clock > @ THEN -1 ELSE @]

\* the note of a response stored for key at this moment: the first call
\* after clock + ttl is owed a backend request, unless an older one is owed
noteOwed(key) ==
    [owed EXCEPT ![key] = IF @ >= 0 THEN @ ELSE clock + ttlOf(key)]

\* a function starts in the first free slot (the slots are interchangeable)
Free(p) ==
    /\ started < MaxStarts
    /\ proc[p].pc = "idle"
    /\ \A q \in Procs : q < p => proc[q].pc # "idle"

\* a variant of fetchData whose getSummary asks the cache with a ttl of 0
fetchData_zeroTtl(p) ==
    LET r == get(cache, SummaryKey, 0, clock)
    IN  /\ cache' = r.cache
        /\ owed' = noteCall(SummaryKey)
        /\ proc' = [proc EXCEPT ![p] =
                IF r.ret # Null
                THEN [Idle EXCEPT !.pc = "getAll", !.resp = r.ret,
                                  !.epoch = invalDb]
                ELSE [Idle EXCEPT !.pc = "sumSent", !.sentDb = db,
                                  !.epoch = invalDb,
                                  !.had = SummaryKey \in DOMAIN cache]]

\* portfolioAPI.getSummary up to its await, inside fetchData: a cached
\* payload is returned at once and fetchData goes on to stockAPI.getAll();
\* on a miss GET /portfolio/summary is sent
fetchData(p) ==
    LET r == get(cache, SummaryKey, SummaryTTL, clock)
    IN  /\ cache' = r.cache
        /\ owed' = noteCall(SummaryKey)
        /\ proc' = [proc EXCEPT ![p] =
                IF r.ret # Null
                THEN [Idle EXCEPT !.pc = "getAll", !.resp = r.ret,
                                  !.epoch = invalDb]
                ELSE [Idle EXCEPT !.pc = "sumSent", !.sentDb = db,
                                  !.epoch = invalDb,
                                  !.had = SummaryKey \in DOMAIN cache]]

\* the page calls fetchData: on mount, from Refresh, from onTickerUpdate and
\* from the modals' onSuccess
FetchData(p) ==
    /\ Free(p)
    /\ started' = started + 1
    /\ fetchData(p)
    /\ UNCHANGED <<clock, ticks, last, db, dash, failed, completed, invalDb>>
    /\ UNCHANGED <<mergeVars, hookVars>>

\* checkAPIStatus: getAPIStatus answers from the cache, or sends
\* GET /api-status
CheckAPIStatus(p) ==
    LET r == get(cache, StatusKey, StatusTTL, clock)
    IN  /\ Free(p)
        /\ started' = started + 1
        /\ cache' = r.cache
        /\ owed' = noteCall(StatusKey)
        /\ IF r.ret # Null
           THEN /\ dash' = [dash EXCEPT !.apiStatus = r.ret]
                /\ proc' = proc
           ELSE /\ dash' = dash
                /\ proc' = [proc EXCEPT ![p] =
                        [Idle EXCEPT !.pc = "statSent", !.sentDb = db,
                                     !.epoch = invalDb,
                                     !.had = StatusKey \in DOMAIN cache]]
        /\ UNCHANGED <<clock, ticks, last, db, failed, completed, invalDb>>
        /\ UNCHANGED <<mergeVars, hookVars>>

\* the bodies a response may carry: the backend read its data at some moment
\* between the request being sent and now
Bodies(p) == proc[p].sentDb .. db

\* the response of GET /portfolio/summary arrives: getSummary stores it and
\* returns it, and fetchData sends stockAPI.getAll()
SummaryArrives(p, body) ==
    /\ proc[p].pc = "sumSent"
    /\ cache' = set(cache, SummaryKey, body, clock)
    /\ completed' = [completed EXCEPT ![SummaryKey] = clock]
    /\ owed' = noteOwed(SummaryKey)
    /\ proc' = [proc EXCEPT ![p] =
            [Idle EXCEPT !.pc = "getAll", !.resp = body,
                         !.epoch = proc[p].epoch]]
    /\ UNCHANGED <<clock, ticks, last, db, dash, invalDb, started, failed>>
    /\ UNCHANGED <<mergeVars, hookVars>>

\* a variant of SummaryFails that stores a payload although the request
\* failed
SummaryFails_stores(p) ==
    /\ proc[p].pc = "sumSent"
    /\ cache' = set(cache, SummaryKey, proc[p].sentDb, clock)
    /\ dash' = [dash EXCEPT !.error = TRUE]
    /\ failed' = failed + 1
    /\ proc' = [proc EXCEPT ![p] = Idle]
    /\ UNCHANGED <<clock, ticks, last, db, owed, completed, invalDb, started>>
    /\ UNCHANGED <<mergeVars, hookVars>>

\* GET /portfolio/summary fails: getSummary throws before cache.set, and the
\* catch of fetchData sets the error
SummaryFails(p) ==
    /\ proc[p].pc = "sumSent"
    /\ dash' = [dash EXCEPT !.error = TRUE]
    /\ failed' = failed + 1
    /\ proc' = [proc EXCEPT ![p] = Idle]
    /\ UNCHANGED <<cache, clock, ticks, last, db, owed, completed, invalDb,
                   started>>
    /\ UNCHANGED <<mergeVars, hookVars>>

\* a variant of StatusArrives whose body is stored under the summary key
StatusArrives_summaryKey(p, body) ==
    /\ proc[p].pc = "statSent"
    /\ cache' = set(cache, SummaryKey, body, clock)
    /\ completed' = [completed EXCEPT ![StatusKey] = clock]
    /\ owed' = noteOwed(StatusKey)
    /\ dash' = [dash EXCEPT !.apiStatus = body]
    /\ proc' = [proc EXCEPT ![p] = Idle]
    /\ UNCHANGED <<clock, ticks, last, db, invalDb, started, failed>>
    /\ UNCHANGED <<mergeVars, hookVars>>

\* the response of GET /api-status arrives: getAPIStatus stores it and
\* checkAPIStatus shows it
StatusArrives(p, body) ==
    /\ proc[p].pc = "statSent"
    /\ cache' = set(cache, StatusKey, body, clock)
    /\ completed' = [completed EXCEPT ![StatusKey] = clock]
    /\ owed' = noteOwed(StatusKey)
    /\ dash' = [dash EXCEPT !.apiStatus = body]
    /\ proc' = [proc EXCEPT ![p] = Idle]
    /\ UNCHANGED <<clock, ticks, last, db, invalDb, started, failed>>
    /\ UNCHANGED <<mergeVars, hookVars>>

\* GET /api-status fails: getAPIStatus throws before cache.set, and
\* checkAPIStatus logs the error
StatusFails(p) ==
    /\ proc[p].pc = "statSent"
    /\ failed' = failed + 1
    /\ proc' = [proc EXCEPT ![p] = Idle]
    /\ UNCHANGED <<cache, clock, ticks, last, db, dash, owed, completed,
                   invalDb, started>>
    /\ UNCHANGED <<mergeVars, hookVars>>

\* a variant of GetAllArrives that shows the summary the cache holds at that
\* moment instead of the one this fetchData received
GetAllArrives_fromCache(p) ==
    /\ proc[p].pc = "getAll"
    /\ LET shown == IF SummaryKey \in DOMAIN cache
                    THEN cache[SummaryKey].data ELSE proc[p].resp
       IN  dash' = [dash EXCEPT !.stocks = shown, !.metrics = shown,
                                !.error = FALSE]
    /\ proc' = [proc EXCEPT ![p] = Idle]
    /\ UNCHANGED <<cache, clock, ticks, last, db, owed, completed, invalDb,
                   started, failed>>
    /\ UNCHANGED <<mergeVars, hookVars>>

\* the response of stockAPI.getAll() arrives: fetchData shows the stocks and
\* the metrics of the summary it holds and clears the error
GetAllArrives(p) ==
    /\ proc[p].pc = "getAll"
    /\ dash' = [dash EXCEPT !.stocks = proc[p].resp,
                            !.metrics = proc[p].resp, !.error = FALSE]
    /\ proc' = [proc EXCEPT ![p] = Idle]
    /\ UNCHANGED <<cache, clock, ticks, last, db, owed, completed, invalDb,
                   started, failed>>
    /\ UNCHANGED <<mergeVars, hookVars>>

\* stockAPI.getAll() fails: the catch of fetchData sets the error
GetAllFails(p) ==
    /\ proc[p].pc = "getAll"
    /\ dash' = [dash EXCEPT !.error = TRUE]
    /\ proc' = [proc EXCEPT ![p] = Idle]
    /\ UNCHANGED <<cache, clock, ticks, last, db, owed, completed, invalDb,
                   started, failed>>
    /\ UNCHANGED <<mergeVars, hookVars>>

\* a handler sends its stockAPI call
HandlerStarts(p, fn) ==
    /\ Free(p)
    /\ started' = started + 1
    /\ proc' = [proc EXCEPT ![p] = [Idle EXCEPT !.pc = "mutating", !.fn = fn]]
    /\ UNCHANGED <<cache, clock, ticks, last, db, dash, failed, owed,
                   completed, invalDb>>
    /\ UNCHANGED <<mergeVars, hookVars>>

\* the backend commits the mutation and answers 2xx
BackendCommits(p) ==
    /\ proc[p].pc = "mutating"
    /\ db < MaxDb
    /\ db' = db + 1
    /\ proc' = [proc EXCEPT ![p].pc = "mutOk", ![p].wrote = db + 1]
    /\ UNCHANGED <<cache, clock, ticks, last, dash, owed, completed, invalDb,
                   started, failed>>
    /\ UNCHANGED <<mergeVars, hookVars>>

\* the 2xx arrives: handleUpdateSingle starts its timer, the other handlers
\* call fetchData
HandlerResumes(p) ==
    /\ proc[p].pc = "mutOk"
    /\ IF proc[p].fn = "handleUpdateSingle"
       THEN /\ proc' = [proc EXCEPT ![p].pc = "delay",
                                    ![p].wake = clock + SingleDelay]
            /\ UNCHANGED <<cache, owed>>
       ELSE fetchData(p)
    /\ UNCHANGED <<clock, ticks, last, db, dash, completed, invalDb, started,
                   failed>>
    /\ UNCHANGED <<mergeVars, hookVars>>

\* the timer of handleUpdateSingle fires: it calls fetchData
DelayElapses(p) ==
    /\ proc[p].pc = "delay"
    /\ clock >= proc[p].wake
    /\ fetchData(p)
    /\ UNCHANGED <<clock, ticks, last, db, dash, completed, invalDb, started,
                   failed>>
    /\ UNCHANGED <<mergeVars, hookVars>>

\* the backend rejects the mutation with status st and the error arrives:
\* the catch alerts, and on a 404 handleDelete and handleUpdateSingle call
\* fetchData
HandlerCatches(p, st) ==
    /\ proc[p].pc = "mutating"
    /\ IF st = 404 /\ proc[p].fn \in RefreshOn404
       THEN fetchData(p)
       ELSE /\ proc' = [proc EXCEPT ![p] = Idle]
            /\ UNCHANGED <<cache, owed>>
    /\ UNCHANGED <<clock, ticks, last, db, dash, completed, invalDb, started,
                   failed>>
    /\ UNCHANGED <<mergeVars, hookVars>>

\* a component calls the exported invalidateCache (no file of the repository
\* does): given is FALSE when the pattern is omitted
InvalidateCache(given, pattern) ==
    /\ cache' = invalidate(cache, given, pattern)
    /\ invalDb' = IF ~given \/ includes(SummaryKey, pattern) THEN db
                                                             ELSE invalDb
    /\ UNCHANGED <<clock, ticks, last, db, proc, dash, owed, completed,
                   started, failed>>
    /\ UNCHANGED <<mergeVars, hookVars>>

Next ==
    \/ \E d \in AppTickSteps : Tick(d)
    \/ \E p \in Procs :
        \/ FetchData(p)
        \/ CheckAPIStatus(p)
        \/ \E body \in Bodies(p) : SummaryArrives(p, body)
        \/ SummaryFails(p)
        \/ \E body \in Bodies(p) : StatusArrives(p, body)
        \/ StatusFails(p)
        \/ GetAllArrives(p)
        \/ GetAllFails(p)
        \/ \E fn \in Handlers : HandlerStarts(p, fn)
        \/ BackendCommits(p)
        \/ HandlerResumes(p)
        \/ DelayElapses(p)
        \/ \E st \in ErrorStatuses : HandlerCatches(p, st)

\* the dashboard page as the repository has it
Spec == Init /\ [][Next]_vars

\* fetchData and the handlers of the page together with a component that
\* calls invalidateCache, with a pattern that names the summary key or with
\* none
ApiNext ==
    \/ \E d \in AppTickSteps : Tick(d)
    \/ \E p \in Procs :
        \/ FetchData(p)
        \/ \E body \in Bodies(p) : SummaryArrives(p, body)
        \/ SummaryFails(p)
        \/ GetAllArrives(p)
        \/ GetAllFails(p)
        \/ \E fn \in Handlers : HandlerStarts(p, fn)
        \/ BackendCommits(p)
        \/ HandlerResumes(p)
        \/ DelayElapses(p)
        \/ \E st \in ErrorStatuses : HandlerCatches(p, st)
    \/ InvalidateCache(TRUE, "portfolio")
    \/ InvalidateCache(FALSE, "")

ApiSpec == Init /\ [][ApiNext]_vars

----------------------------------------------------------------------------
(* The ticker edit: StockTable and EditTickerModal *)

\* JSON values of a stock's fields; t is the type typeof would see
JNull == [t |-> "null", s |-> "", n |-> 0]

JUndefined == [t |-> "undefined", s |-> "", n |-> 0]

Str(x) == [t |-> "string", s |-> x, n |-> 0]

Num(x) == [t |-> "number", s |-> "", n |-> x]

\* the array fields of countFilledFields, in its order
fields ==
    <<"company_name", "sector", "isin", "current_price", "fair_value",
      "beta", "volatility", "pe_ratio", "eps_growth_rate", "debt_to_ebitda",
      "dividend_yield", "shares_owned", "avg_price_local", "comment">>

\* the fields of interface Stock that are strings
StringFields == {"company_name", "sector", "isin", "comment"}

\* a variant of isEmptyValue that takes a numeric zero for a value
isEmptyValue_zeroFilled(value) ==
    \/ value.t = "null"
    \/ value.t = "undefined"
    \/ value.t = "string" /\ value.s = ""

\* value === null || value === undefined || value === '' || value === 0
isEmptyValue(value) ==
    \/ value.t = "null"
    \/ value.t = "undefined"
    \/ value.t = "string" /\ value.s = ""
    \/ value.t = "number" /\ value.n = 0

\* the forEach of countFilledFields from field i on, with the accumulators
RECURSIVE countFrom(_, _, _, _)
countFrom(stock, i, filledCount, emptyFields) ==
    IF i > Len(fields)
    THEN [count |-> filledCount, emptyFields |-> emptyFields]
    ELSE IF isEmptyValue(stock.f[fields[i]])
         THEN countFrom(stock, i + 1, filledCount,
                        Append(emptyFields, fields[i]))
         ELSE countFrom(stock, i + 1, filledCount + 1, emptyFields)

countFilledFields(stock) == countFrom(stock, 1, 0, <<>>)

\* String.prototype.toUpperCase on one character of the tickers used
upperChar(ch) ==
    CASE ch = "a" -> "A" [] ch = "f" -> "F" [] ch = "l" -> "L"
      [] ch = "m" -> "M" [] ch = "p" -> "P" [] ch = "s" -> "S"
      [] ch = "t" -> "T" [] OTHER -> ch

RECURSIVE toUpperCase(_)
toUpperCase(str) ==
    IF Len(str) = 0
    THEN ""
    ELSE upperChar(SubSeq(str, 1, 1)) \o toUpperCase(SubSeq(str, 2, Len(str)))

\* String.prototype.trim on the tickers used (spaces at either end)
RECURSIVE trim(_)
trim(str) ==
    IF Len(str) = 0 THEN ""
    ELSE IF SubSeq(str, 1, 1) = " " THEN trim(SubSeq(str, 2, Len(str)))
    ELSE IF SubSeq(str, Len(str), Len(str)) = " "
         THEN trim(SubSeq(str, 1, Len(str) - 1))
    ELSE str

\* the ids of the stocks the backend holds
StockIds == {1, 2, 3}

\* the tickers a stock may carry when the page loads: stock 3 may repeat the
\* ticker of stock 2 (a duplicate an earlier, half-applied merge left)
TickersOf(id) ==
    CASE id = 1 -> {"MSFT"}
      [] id = 2 -> {"AAPL", "aapl"}
      [] OTHER -> {"Tsla", "AAPL"}

\* the company names of the stocks
CompanyOf(id) ==
    CASE id = 1 -> "Microsoft" [] id = 2 -> "Apple" [] OTHER -> "Tesla"

FieldSet == {fields[i] : i \in 1..Len(fields)}

\* the sets of fields a stock may have filled when the page loads: with
\* shares_owned it is a row of the portfolio table, without it of the watchlist
ShapesOf(id) ==
    CASE id = 1 -> { {"company_name", "current_price"},
                     {"sector", "shares_owned"},
                     FieldSet \ {"comment"} }
      [] id = 2 -> { {},
                     {"sector", "comment"},
                     {"sector", "shares_owned"},
                     FieldSet \ {"comment"} }
      [] OTHER -> { {"sector", "comment"},
                    {"company_name", "shares_owned"} }

fieldIndex(field) == CHOOSE i \in 1..Len(fields) : fields[i] = field

\* the four empty values, spread over the fields of a record
emptyValue(id, field) ==
    CASE (id + fieldIndex(field)) % 4 = 0 -> JNull
      [] (id + fieldIndex(field)) % 4 = 1 -> JUndefined
      [] (id + fieldIndex(field)) % 4 = 2 -> Str("")
      [] OTHER -> Num(0)

\* a value of the record with this id that is not empty
filledValue(id, field) ==
    IF field \in StringFields THEN Str(CompanyOf(id)) ELSE Num(id)

\* a record of interface Stock: its id, its ticker and the 14 fields the
\* modal reads (f)
mkStock(id, ticker, shape) ==
    [id |-> id, ticker |-> ticker,
     f |-> [field \in FieldSet |->
              IF field \in shape THEN filledValue(id, field)
                                 ELSE emptyValue(id, field)]]

\* stocks.filter(s => s.shares_owned > 0): the rows of the portfolio table
isOwned(s) ==
    s.f["shares_owned"].t = "number" /\ s.f["shares_owned"].n > 0

\* stocks.filter(s => s.shares_owned === 0 || !s.shares_owned): the rows of
\* the watchlist table
isWatched(s) ==
    \/ s.f["shares_owned"].t = "number" /\ s.f["shares_owned"].n = 0
    \/ s.f["shares_owned"].t \in {"null", "undefined"}
    \/ s.f["shares_owned"].t = "string" /\ s.f["shares_owned"].s = ""

Tables == {"portfolio", "watchlist"}

\* the stocks prop DashboardPage hands to the StockTable of a table
stocksOf(table) ==
    IF table = "portfolio" THEN SelectSeq(rows, isOwned)
                           ELSE SelectSeq(rows, isWatched)

\* allStocks.find(s => s.id !== stock.id &&
\*                     s.ticker.toUpperCase() === newTicker.toUpperCase())
RECURSIVE find(_, _, _, _)
find(allStocks, i, stock, newTicker) ==
    IF i > Len(allStocks) THEN None
    ELSE IF /\ allStocks[i].id # stock.id
            /\ toUpperCase(allStocks[i].ticker) = toUpperCase(newTicker)
         THEN Some(allStocks[i])
         ELSE find(allStocks, i + 1, stock, newTicker)

\* a MergeCandidate
candidate(stock, analysis) ==
    [stock |-> stock, filledFields |-> analysis.count,
     emptyFields |-> analysis.emptyFields]

\* a variant of selectTarget that keeps the edited stock only when it has
\* strictly more filled fields
selectTarget_strict(stock, duplicate) ==
    LET currentStockAnalysis == countFilledFields(stock)
        duplicateAnalysis == countFilledFields(duplicate)
    IN  IF currentStockAnalysis.count > duplicateAnalysis.count
        THEN [target |-> candidate(stock, currentStockAnalysis),
              source |-> candidate(duplicate, duplicateAnalysis)]
        ELSE [target |-> candidate(duplicate, duplicateAnalysis),
              source |-> candidate(stock, currentStockAnalysis)]

\* the choice of the merge target in the effect: the stock with more filled
\* fields, the edited stock on a tie
selectTarget(stock, duplicate) ==
    LET currentStockAnalysis == countFilledFields(stock)
        duplicateAnalysis == countFilledFields(duplicate)
    IN  IF currentStockAnalysis.count >= duplicateAnalysis.count
        THEN [target |-> candidate(stock, currentStockAnalysis),
              source |-> candidate(duplicate, duplicateAnalysis)]
        ELSE [target |-> candidate(duplicate, duplicateAnalysis),
              source |-> candidate(stock, currentStockAnalysis)]

\* a variant of detect that compares the tickers as they are written
detect_caseSensitive(newTicker, stock, allStocks) ==
    LET same == {i \in 1..Len(allStocks) :
                    allStocks[i].id # stock.id
                    /\ allStocks[i].ticker = newTicker}
    IN  IF newTicker # "" /\ newTicker # stock.ticker /\ same # {}
        THEN LET duplicate ==
                     allStocks[CHOOSE i \in same : \A j \in same : i <= j]
             IN [duplicateStock |-> Some(duplicate),
                 mergePreview |-> Some(selectTarget(stock, duplicate))]
        ELSE [duplicateStock |-> None, mergePreview |-> None]

\* the effect of EditTickerModal on [newTicker, stock, allStocks]: the values
\* it sets duplicateStock and mergePreview to
detect(newTicker, stock, allStocks) ==
    IF newTicker # "" /\ newTicker # stock.ticker
    THEN LET duplicate == find(allStocks, 1, stock, newTicker)
         IN  IF duplicate # None
             THEN [duplicateStock |-> duplicate,
                   mergePreview |-> Some(selectTarget(stock, duplicate[1]))]
             ELSE [duplicateStock |-> None, mergePreview |-> None]
    ELSE [duplicateStock |-> None, mergePreview |-> None]

\* the tickers the user may type into the input
ProposedTickers ==
    {"", " ", "AAPL", "aapl", "msft", "tsla", "GOOG"}

\* err.response?.data?.error of a failed call: absent, empty or a text
ServerErrors == {JUndefined, Str(""), Str("Stock not found")}

\* the stocks the backend holds and has not deleted, as GET /stocks lists them
RECURSIVE activeFrom(_, _)
activeFrom(sdb, i) ==
    IF i \notin DOMAIN sdb THEN <<>>
    ELSE IF sdb[i].active THEN <<sdb[i].rec>> \o activeFrom(sdb, i + 1)
    ELSE activeFrom(sdb, i + 1)

\* the page has loaded the stocks of the backend, and no ticker is edited
MergeInit ==
    /\ PageInit
    /\ \E tk \in [StockIds -> UNION {TickersOf(i) : i \in StockIds}] :
       \E sh \in [StockIds -> UNION {ShapesOf(i) : i \in StockIds}] :
          /\ \A i \in StockIds : tk[i] \in TickersOf(i)
          /\ \A i \in StockIds : sh[i] \in ShapesOf(i)
          /\ stocksDb = [i \in StockIds |->
                [rec |-> mkStock(i, tk[i], sh[i]), active |-> TRUE]]
    /\ rows = activeFrom(stocksDb, 1)
    /\ modal = Closed
    /\ submit = NotSubmitting
    /\ sent = <<>>
    /\ auth = TRUE
    /\ Mounted

\* the pencil next to a ticker in a table: setEditingTicker(stock) mounts the
\* modal with newTicker = stock.ticker, and its effect runs
OpenEditor(table, i) ==
    /\ modal.table = "none"
    /\ i \in 1..Len(stocksOf(table))
    /\ LET stock == stocksOf(table)[i]
           d == detect(stock.ticker, stock, stocksOf(table))
       IN  modal' = [Closed EXCEPT !.open = TRUE, !.table = table,
                                   !.stock = Some(stock),
                                   !.newTicker = stock.ticker,
                                   !.duplicateStock = d.duplicateStock,
                                   !.mergePreview = d.mergePreview]
    /\ UNCHANGED <<stocksDb, rows, submit, sent, pageVars, hookVars>>

TypeTicker_keepsPlan(t) ==
    /\ modal.open
    /\ t # modal.newTicker
    /\ LET d == detect(t, modal.stock[1], stocksOf(modal.table))
       IN  modal' = IF d.duplicateStock = None
                    THEN [modal EXCEPT !.newTicker = t]
                    ELSE [modal EXCEPT !.newTicker = t,
                                       !.duplicateStock = d.duplicateStock,
                                       !.mergePreview = d.mergePreview]
    /\ UNCHANGED <<stocksDb, rows, submit, sent, pageVars, hookVars>>

\* onChange of the input: setNewTicker, then the effect re-evaluates the
\* collision (React runs the effect before the next event is handled)
TypeTicker(t) ==
    /\ modal.open
    /\ t # modal.newTicker
    /\ LET d == detect(t, modal.stock[1], stocksOf(modal.table))
       IN  modal' = [modal EXCEPT !.newTicker = t,
                                  !.duplicateStock = d.duplicateStock,
                                  !.mergePreview = d.mergePreview]
    /\ UNCHANGED <<stocksDb, rows, submit, sent, pageVars, hookVars>>

\* the Cancel and X buttons: onClose unmounts the modal; a handleSubmit that
\* is running goes on
Cancel ==
    /\ modal.open
    /\ modal' = [modal EXCEPT !.open = FALSE]
    /\ UNCHANGED <<stocksDb, rows, submit, sent, pageVars, hookVars>>

\* a variant of mergeData that copies every value the source has, over the
\* values of the target too
mergeData_all(plan, newTicker) ==
    LET moved == {field \in FieldSet :
                    ~ isEmptyValue(plan.source.stock.f[field])}
    IN  [field \in moved \cup {"ticker"} |->
            IF field = "ticker" THEN Str(toUpperCase(newTicker))
                                ELSE plan.source.stock.f[field]]

\* the body of the PUT of performMerge: the ticker and, for each empty field
\* of the target, the value of the source if it is not empty
mergeData(plan, newTicker) ==
    LET empties == {plan.target.emptyFields[i] :
                        i \in 1..Len(plan.target.emptyFields)}
        moved == {field \in empties :
                    LET sourceValue == plan.source.stock.f[field]
                    IN  ~ (\/ sourceValue.t = "null"
                           \/ sourceValue.t = "undefined"
                           \/ sourceValue.t = "string" /\ sourceValue.s = ""
                           \/ sourceValue.t = "number" /\ sourceValue.n = 0)}
    IN  [field \in moved \cup {"ticker"} |->
            IF field = "ticker" THEN Str(toUpperCase(newTicker))
                                ELSE plan.source.stock.f[field]]

\* a value inside a template literal
inTemplate(value) ==
    CASE value.t = "string" -> value.s
      [] value.t = "number" -> ToString(value.n)
      [] OTHER -> value.t

\* the reason of the DELETE of performMerge
mergeReason(plan) ==
    "Merged into " \o plan.target.stock.ticker \o " (" \o
    inTemplate(plan.target.stock.f["company_name"]) \o ")"

\* a call of stockAPI
request(call, id, field, data, reason) ==
    [call |-> call, id |-> id, field |-> field, data |-> data,
     reason |-> reason]

\* a variant of Confirm whose button is not disabled while loading
Confirm_whileLoading ==
    /\ modal.open
    /\ trim(modal.newTicker) # ""
    /\ modal' = [modal EXCEPT !.error = "", !.loading = TRUE]
    /\ IF modal.duplicateStock # None /\ modal.mergePreview # None
       THEN /\ sent' = <<request("update",
                                 modal.mergePreview[1].target.stock.id, "",
                                 mergeData(modal.mergePreview[1],
                                           modal.newTicker), "")>>
            /\ submit' = [pc |-> "update", stock |-> modal.stock,
                          ticker |-> modal.newTicker,
                          plan |-> modal.mergePreview, err |-> None]
       ELSE /\ sent' = <<request("updateField", modal.stock[1].id, "ticker",
                                 Str(toUpperCase(modal.newTicker)), "")>>
            /\ submit' = [pc |-> "patch", stock |-> modal.stock,
                          ticker |-> modal.newTicker, plan |-> None,
                          err |-> None]
    /\ UNCHANGED <<stocksDb, rows, pageVars, hookVars>>

\* a variant of Confirm whose PATCH carries the ticker as it was typed
Confirm_asTyped ==
    /\ modal.open
    /\ ~ modal.loading
    /\ trim(modal.newTicker) # ""
    /\ submit.pc = "idle"
    /\ modal' = [modal EXCEPT !.error = "", !.loading = TRUE]
    /\ IF modal.duplicateStock # None /\ modal.mergePreview # None
       THEN /\ sent' = <<request("update",
                                 modal.mergePreview[1].target.stock.id, "",
                                 mergeData(modal.mergePreview[1],
                                           modal.newTicker), "")>>
            /\ submit' = [pc |-> "update", stock |-> modal.stock,
                          ticker |-> modal.newTicker,
                          plan |-> modal.mergePreview, err |-> None]
       ELSE /\ sent' = <<request("updateField", modal.stock[1].id, "ticker",
                                 Str(modal.newTicker), "")>>
            /\ submit' = [pc |-> "patch", stock |-> modal.stock,
                          ticker |-> modal.newTicker, plan |-> None,
                          err |-> None]
    /\ UNCHANGED <<stocksDb, rows, pageVars, hookVars>>

\* the submit button (disabled while loading or when the ticker is blank):
\* handleSubmit up to its first await, which is the PUT of performMerge when
\* a plan exists and the PATCH of the ticker otherwise
Confirm ==
    /\ modal.open
    /\ ~ modal.loading
    /\ trim(modal.newTicker) # ""
    /\ submit.pc = "idle"
    /\ modal' = [modal EXCEPT !.error = "", !.loading = TRUE]
    /\ IF modal.duplicateStock # None /\ modal.mergePreview # None
       THEN /\ sent' = <<request("update",
                                 modal.mergePreview[1].target.stock.id, "",
                                 mergeData(modal.mergePreview[1],
                                           modal.newTicker), "")>>
            /\ submit' = [pc |-> "update", stock |-> modal.stock,
                          ticker |-> modal.newTicker,
                          plan |-> modal.mergePreview, err |-> None]
       ELSE /\ sent' = <<request("updateField", modal.stock[1].id, "ticker",
                                 Str(toUpperCase(modal.newTicker)), "")>>
            /\ submit' = [pc |-> "patch", stock |-> modal.stock,
                          ticker |-> modal.newTicker, plan |-> None,
                          err |-> None]
    /\ UNCHANGED <<stocksDb, rows, pageVars, hookVars>>

\* handleSubmit after its try block succeeded: onSuccess() and onClose()
\* unmount the modal (and the page starts fetchData)
succeeded ==
    /\ modal' = [modal EXCEPT !.open = FALSE, !.done = "success"]
    /\ submit' = NotSubmitting

\* a variant of caught that shows no error
caught_silent(e) ==
    /\ modal' = IF modal.open THEN [modal EXCEPT !.loading = FALSE] ELSE modal
    /\ submit' = [NotSubmitting EXCEPT !.err = Some(e)]

caught_generic(e) ==
    /\ modal' = IF modal.open
                THEN [modal EXCEPT !.error = "Failed to update ticker",
                                   !.loading = FALSE]
                ELSE modal
    /\ submit' = [NotSubmitting EXCEPT !.err = Some(e)]

\* the catch and the finally of handleSubmit: setError, setLoading(false),
\* which do nothing once the modal is unmounted
caught(e) ==
    /\ modal' = IF modal.open
                THEN [modal EXCEPT
                        !.error = IF isEmptyValue(e)
                                  THEN "Failed to update ticker" ELSE e.s,
                        !.loading = FALSE]
                ELSE modal
    /\ submit' = [NotSubmitting EXCEPT !.err = Some(e)]

\* the backend applies the body of a PUT or PATCH to the record with this id
applied(sdb, id, data) ==
    [sdb EXCEPT ![id].rec =
        [id |-> @.id,
         ticker |-> IF "ticker" \in DOMAIN data THEN data["ticker"].s
                                                ELSE @.ticker,
         f |-> [field \in FieldSet |->
                  IF field \in DOMAIN data THEN data[field] ELSE @.f[field]]]]

\* PATCH /stocks/:id/field succeeds: the backend sets the ticker, and
\* handleSubmit finishes
PatchSucceeds ==
    /\ submit.pc = "patch"
    /\ stocksDb[sent[1].id].active
    /\ stocksDb' = applied(stocksDb, sent[1].id, [ticker |-> sent[1].data])
    /\ succeeded
    /\ UNCHANGED <<rows, sent, pageVars, hookVars>>

\* PATCH /stocks/:id/field fails
PatchFails(e) ==
    /\ submit.pc = "patch"
    /\ caught(e)
    /\ UNCHANGED <<stocksDb, rows, sent, pageVars, hookVars>>

\* PUT /stocks/:id succeeds: the backend writes the fields of the body, and
\* performMerge sends the DELETE of the source
UpdateSucceeds ==
    /\ submit.pc = "update"
    /\ stocksDb[sent[1].id].active
    /\ stocksDb' = applied(stocksDb, sent[1].id, sent[1].data)
    /\ sent' = Append(sent, request("delete", submit.plan[1].source.stock.id,
                                    "", <<>>, mergeReason(submit.plan[1])))
    /\ submit' = [submit EXCEPT !.pc = "delete"]
    /\ UNCHANGED <<rows, modal, pageVars, hookVars>>

UpdateFails_thenDelete(e) ==
    /\ submit.pc = "update"
    /\ sent' = Append(sent, request("delete", submit.plan[1].source.stock.id,
                                    "", <<>>, mergeReason(submit.plan[1])))
    /\ submit' = [submit EXCEPT !.pc = "delete"]
    /\ UNCHANGED <<stocksDb, rows, modal, pageVars, hookVars>>

\* PUT /stocks/:id fails: performMerge throws before the DELETE
UpdateFails(e) ==
    /\ submit.pc = "update"
    /\ caught(e)
    /\ UNCHANGED <<stocksDb, rows, sent, pageVars, hookVars>>

\* DELETE /stocks/:id succeeds: the backend deletes the source, and
\* handleSubmit finishes
DeleteSucceeds ==
    /\ submit.pc = "delete"
    /\ stocksDb[sent[2].id].active
    /\ stocksDb' = [stocksDb EXCEPT ![sent[2].id].active = FALSE]
    /\ succeeded
    /\ UNCHANGED <<rows, sent, pageVars, hookVars>>

\* DELETE /stocks/:id fails, after the PUT was applied
DeleteFails(e) ==
    /\ submit.pc = "delete"
    /\ caught(e)
    /\ UNCHANGED <<stocksDb, rows, sent, pageVars, hookVars>>

\* the fetchData that onSuccess started brings the stocks of the backend
Reloads ==
    /\ modal.done = "success"
    /\ rows # activeFrom(stocksDb, 1)
    /\ rows' = activeFrom(stocksDb, 1)
    /\ UNCHANGED <<stocksDb, modal, submit, sent, pageVars, hookVars>>

MergeNext ==
    \/ \E table \in Tables, i \in StockIds : OpenEditor(table, i)
    \/ \E t \in ProposedTickers : TypeTicker(t)
    \/ Cancel
    \/ Confirm
    \/ PatchSucceeds
    \/ \E e \in ServerErrors : PatchFails(e)
    \/ UpdateSucceeds
    \/ \E e \in ServerErrors : UpdateFails(e)
    \/ DeleteSucceeds
    \/ \E e \in ServerErrors : DeleteFails(e)
    \/ Reloads

\* one edit of a ticker, from the pencil to the end of handleSubmit
MergeSpec == MergeInit /\ [][MergeNext]_vars

----------------------------------------------------------------------------
(* Claims about SimpleCache, checked under CacheSpec *)

\* the step is a call of cache.get(key, ttl); the test of last' comes first
\* so that the action is evaluated for the one call the step can be
IsGet(key, ttl) ==
    last'.op = "get" /\ last'.key = key /\ last'.ttl = ttl /\ CacheGet(key, ttl)

\* the step is a call of cache.set(key, v)
IsSet(key, v) ==
    last'.op = "set" /\ last'.key = key /\ last'.ret = v /\ CacheSet(key, v)

\* the step is a call of cache.invalidate(pattern)
IsInvalidate(pattern) ==
    last'.op = "invalidate" /\ last'.key = pattern /\ CacheInvalidate(pattern)

\* the entry of key in cache c is fresh for ttl at time now
Fresh(c, key, ttl, now) ==
    key \in DOMAIN c /\ now - c[key].timestamp <= ttl

\* C3: get(key, ttl) returns the stored payload if and only if an entry
\* exists and now - storedAt <= ttl (an age of exactly ttl is a hit); it
\* never returns a payload older than ttl.
C3_GetHitIffFresh ==
    [][\A key \in Keys, ttl \in TTLs :
          IsGet(key, ttl) =>
              /\ (last'.ret # Null) <=> Fresh(cache, key, ttl, clock)
              /\ Fresh(cache, key, ttl, clock) => last'.ret = cache[key].data
              /\ last'.ret # Null => clock - cache[key].timestamp <= ttl]_vars

\* a get() has just hit an entry whose age is exactly its (positive) ttl
C3_Witness ==
    /\ last.op = "get"
    /\ last.ret # Null
    /\ last.ttl > 0
    /\ last.key \in DOMAIN cache
    /\ last.at - cache[last.key].timestamp = last.ttl

\* C4: a get(key, ttl) that finds an entry older than ttl removes it, and
\* from then on every get(key, ttl2) misses, whatever ttl2, until a set on
\* that key; an expired entry nobody has read stays in the Map (time passing
\* removes nothing) and a get whose ttl covers its age still returns it.
C4_ExpiredReadPurges ==
    [][/\ \A key \in Keys, ttl \in TTLs :
            (IsGet(key, ttl) /\ key \in DOMAIN cache
                                /\ clock - cache[key].timestamp > ttl)
                => /\ last'.ret = Null
                   /\ key \notin DOMAIN cache'
                   /\ \A ttl2 \in TTLs : get(cache', key, ttl2, clock').ret = Null
       /\ \A key \in Keys :
            (key \notin DOMAIN cache /\ ~ \E v \in Payloads : IsSet(key, v))
                => /\ key \notin DOMAIN cache'
                   /\ \A ttl2 \in TTLs : IsGet(key, ttl2) => last'.ret = Null
       /\ \A d \in TickSteps : Tick(d) => cache' = cache
       /\ \A key \in Keys, ttl \in TTLs, ttl2 \in TTLs :
            (IsGet(key, ttl2) /\ key \in DOMAIN cache
                                 /\ clock - cache[key].timestamp > ttl
                                 /\ clock - cache[key].timestamp <= ttl2)
                => last'.ret = cache[key].data /\ cache' = cache]_vars

\* a get() with the summary TTL has just purged an entry that a get() with
\* the status TTL would still have returned
C4_Witness ==
    /\ last.op = "get"
    /\ last.found
    /\ last.ret = Null
    /\ last.ttl = SummaryTTL
    /\ last.at <= StatusTTL
    /\ last.at = clock
    /\ last.key \notin DOMAIN cache

\* C5: set(key, v) followed by get(key, ttl), with no clock advance and no
\* other operation in between, returns v for every ttl > 0.
C5_SetThenGet ==
    (last.op = "set" /\ clock = last.at)
        => \A ttl \in TTLs \ {0} : get(cache, last.key, ttl, clock).ret = last.ret

\* a set() has just overwritten, late in the run, an entry of its key
C5_Witness ==
    /\ last.op = "set"
    /\ clock = last.at
    /\ clock > StatusTTL
    /\ cache[last.key].data = last.ret

\* the keys of the program that contain each pattern tried, written out
Matched(pattern) ==
    CASE pattern = "portfolio"         -> {SummaryKey}
      [] pattern = "summary"           -> {SummaryKey}
      [] pattern = "portfolio:summary" -> {SummaryKey}
      [] pattern = "folio:sum"         -> {SummaryKey}
      [] pattern = "api"               -> {StatusKey}
      [] pattern = "status"            -> {StatusKey}
      [] pattern = "api:status"        -> {StatusKey}
      [] pattern = ":"                 -> {SummaryKey, StatusKey}
      [] pattern = "s"                 -> {SummaryKey, StatusKey}
      [] pattern = ""                  -> {SummaryKey, StatusKey}
      [] OTHER                         -> {}

\* C6: invalidate(pattern) removes exactly the entries whose key contains
\* pattern as a substring and leaves every other entry (payload, storedAt)
\* as it was; invalidate() removes every entry; after invalidate("portfolio")
\* a get("portfolio:summary", ttl) misses for every ttl.
C6_InvalidateExact ==
    [][/\ \A pattern \in Patterns :
            IsInvalidate(pattern)
                => /\ DOMAIN cache' = (DOMAIN cache) \ Matched(pattern)
                   /\ \A k \in DOMAIN cache' : cache'[k] = cache[k]
       /\ CacheInvalidateAll => DOMAIN cache' = {}
       /\ IsInvalidate("portfolio")
            => \A ttl \in TTLs : get(cache', SummaryKey, ttl, clock').ret = Null]_vars

\* invalidate() has just removed "portfolio:summary" by a pattern from the
\* middle of the key and kept the entry of "api:status"
C6_Witness ==
    /\ last.op = "invalidate"
    /\ last.key \in {"folio:sum", "summary"}
    /\ DOMAIN cache = {StatusKey}

\* the patterns that name one of the two keys: the key itself and its
\* namespace prefix, the text before the colon
Naming(key) ==
    IF key = SummaryKey THEN {"portfolio", "portfolio:summary"}
                        ELSE {"api", "api:status"}

\* the entry of key is the same (present or not, payload, storedAt) in c and d
SameEntry(c, d, key) ==
    /\ (key \in DOMAIN c) <=> (key \in DOMAIN d)
    /\ key \in DOMAIN c => c[key] = d[key]

\* C7: for the two cached keys, a set on one key, and an invalidate called
\* with a pattern that names one key (the key or its prefix), leave the
\* entry of the other key unchanged: presence, payload and storedAt.
C7_KeysIndependent ==
    [][\A key \in Keys : \A other \in Keys \ {key} :
          /\ \A v \in Payloads :
                IsSet(key, v) => SameEntry(cache, cache', other)
          /\ \A pattern \in Naming(key) :
                IsInvalidate(pattern)
                    => /\ SameEntry(cache, cache', other)
                       /\ key \notin DOMAIN cache']_vars

\* invalidate("portfolio") has just removed the summary entry while an entry
\* of "api:status" was in the Map
C7_Witness ==
    /\ last.op = "invalidate"
    /\ last.key = "portfolio"
    /\ DOMAIN cache = {StatusKey}

\* C9: with TTL 0 caching is off: get(key, 0) misses for every stored entry
\* at every clock value.
C9_ZeroTtlAlwaysMisses ==
    \A key \in Keys : get(cache, key, 0, clock).ret = Null

----------------------------------------------------------------------------
(* Claims about the cached endpoints and the dashboard page *)

\* the request a miss for key sends leaves the function at this label
sentAt(key) == IF key = SummaryKey THEN "sumSent" ELSE "statSent"

\* in this step function p calls getSummary and is answered from the cache
SummaryHit(p) ==
    /\ proc[p].pc \notin {"sumSent", "getAll"}
    /\ proc'[p].pc = "getAll"

\* in this step a call of getAPIStatus is answered from the cache
StatusHit == started' # started /\ proc' = proc

\* in this step function p calls the endpoint of key and sends its GET
Requested(p, key) ==
    proc[p].pc # sentAt(key) /\ proc'[p].pc = sentAt(key)

\* in this step the endpoint of key is called
Called(key) ==
    \/ \E p \in Procs : Requested(p, key)
    \/ IF key = SummaryKey THEN \E p \in Procs : SummaryHit(p) ELSE StatusHit

\* in this step the call of the endpoint of key returns payload v
Returned(key, v) ==
    IF key = SummaryKey
    THEN \E p \in Procs : SummaryHit(p) /\ proc'[p].resp = v
    ELSE StatusHit /\ dash'.apiStatus = v

\* C1: after a successful handlePriceUpdate, handleFieldUpdate, handleDelete
\* or handleUpdateSingle, the getSummary call its fetchData makes does not
\* return a payload stored before the mutation (the code violates this: no
\* handler invalidates the cache).
C1_RefreshAfterMutationIsFresh ==
    [][\A p \in Procs :
          /\ proc[p].pc \in {"mutOk", "delay"}
          /\ proc'[p].pc \in {"sumSent", "getAll"}
          => (proc'[p].pc = "getAll" => proc'[p].resp >= proc[p].wrote)]_vars

\* C2: after invalidateCache ran following a committed mutation, no getSummary
\* call that begins later returns a payload produced before that mutation,
\* even if a request was in flight when the invalidation ran (the code
\* violates this: the response in flight is stored afterwards).
C2_NoStaleAfterInvalidate ==
    \A p \in Procs :
        proc[p].pc = "getAll" /\ proc[p].epoch > 1
            => proc[p].resp >= proc[p].epoch

\* C8 as stated: once a response was stored at t, the first call for the key
\* after t + TTL issues a backend request (owed holds the earliest such
\* t + TTL that no call has come after).
C8_FirstCallAfterTtlRequests ==
    [][\A key \in Keys :
          Called(key) /\ owed[key] >= 0 /\ clock > owed[key]
              => \E p \in Procs : Requested(p, key)]_vars

\* C8: with t the time the latest response for the key was stored and no
\* invalidation since, a call for the key at c with t <= c <= t + TTL sends no
\* backend request and returns the stored payload, and a call after t + TTL
\* sends a backend request.
C8_TtlWindow ==
    [][\A key \in Keys :
          Called(key) /\ completed[key] >= 0
              => IF clock <= completed[key] + ttlOf(key)
                 THEN /\ ~ \E p \in Procs : Requested(p, key)
                      /\ key \in DOMAIN cache
                      /\ Returned(key, cache[key].data)
                 ELSE \E p \in Procs : Requested(p, key)]_vars

\* a getSummary call that came after the window of the latest stored
\* response has sent its request, and getAPIStatus has been served a payload
C8_Witness ==
    /\ \E p \in Procs :
          /\ proc[p].pc = "sumSent"
          /\ proc[p].had
          /\ completed[SummaryKey] >= 0
          /\ clock > completed[SummaryKey] + SummaryTTL
    /\ dash.apiStatus # Null

\* the key of the request function p waits for
keyOf(p) == IF proc[p].pc = "sumSent" THEN SummaryKey ELSE StatusKey

\* in this step the GET function p waits for fails
Fails(p) ==
    /\ failed' # failed
    /\ proc[p].pc \in {"sumSent", "statSent"}
    /\ proc'[p].pc = "idle"

\* C10 as stated: when the request of getSummary or getAPIStatus fails, the
\* cache is exactly as it was before the call: a key the Map held when the
\* call began is still held.
C10_CacheAsBeforeTheCall ==
    [][\A p \in Procs :
          Fails(p) /\ proc[p].had => keyOf(p) \in DOMAIN cache']_vars

\* C10: when the request of getSummary or getAPIStatus fails, the failure
\* reaches the caller (fetchData sets the error, checkAPIStatus shows
\* nothing) and nothing is stored; the only change the call made to the
\* cache is the removal of its own key's expired entry when it began.
C10_FailureStoresNothing ==
    [][/\ \A p \in Procs :
            Fails(p) =>
                /\ cache' = cache
                /\ completed' = completed
                /\ IF proc[p].pc = "sumSent" THEN dash'.error
                                             ELSE dash' = dash
       /\ \A key \in Keys : \A p \in Procs :
            Requested(p, key) =>
                /\ key \notin DOMAIN cache'
                /\ \A other \in Keys \ {key} :
                      /\ other \in DOMAIN cache <=> other \in DOMAIN cache'
                      /\ other \in DOMAIN cache => cache'[other] = cache[other]
                /\ key \in DOMAIN cache
                      => clock - cache[key].timestamp > ttlOf(key)]_vars

\* a getSummary call that removed an expired entry has failed: the error is
\* shown, no function is running, a response was stored once and the Map no
\* longer holds the key
C10_Witness ==
    /\ failed > 0
    /\ dash.error
    /\ \A p \in Procs : proc[p].pc = "idle"
    /\ completed[SummaryKey] >= 0
    /\ SummaryKey \notin DOMAIN cache

----------------------------------------------------------------------------
(* Claims about the ticker edit, checked under MergeSpec *)

\* the stock being edited
Edited == modal.stock[1]

\* the stocks of list other than the edited one whose ticker equals ticker
\* without regard to case
Colliding(list, ticker) ==
    {i \in 1..Len(list) :
        /\ list[i].id # Edited.id
        /\ toUpperCase(list[i].ticker) = toUpperCase(ticker)}

\* C11: whenever the proposed ticker (not empty and not the ticker the edited
\* stock already has) equals, without regard to case, the ticker of another
\* stock of the page, in the portfolio table or in the watchlist table, the
\* modal holds a duplicate and a merge plan (the code violates this: the
\* modal is handed the rows of its own table only).
C11_CollisionAgainstAllStocks ==
    /\ modal.open
    /\ modal.newTicker # ""
    /\ modal.newTicker # Edited.ticker
    /\ Colliding(rows, modal.newTicker) # {}
    => modal.duplicateStock # None /\ modal.mergePreview # None

\* no two stocks of list share a ticker, without regard to case
UniqueTickers(list) ==
    \A i, j \in 1..Len(list) :
        i # j => toUpperCase(list[i].ticker) # toUpperCase(list[j].ticker)

\* C12: once handleSubmit has completed successfully, if no two stocks shared
\* a ticker when the edit began (rows is still the list loaded then), no two
\* active stocks of the backend share a ticker (the code violates this: a
\* rename onto the ticker of a stock of the other table goes through as a
\* simple rename).
C12_RenameKeepsTickersUnique ==
    modal.done = "success" /\ UniqueTickers(rows)
        => UniqueTickers(activeFrom(stocksDb, 1))

\* the list the modal was given as allStocks
AllStocks == stocksOf(modal.table)

\* C13 as stated: whenever some other stock of allStocks has the proposed
\* ticker, without regard to case, a collision is reported.
C13_EveryMatchDetected ==
    modal.open /\ Colliding(AllStocks, modal.newTicker) # {}
        => modal.duplicateStock # None

\* C13: for a proposed ticker that is not empty and is not, letter for
\* letter, the ticker the edited stock has, whenever another stock of
\* allStocks has that ticker without regard to case a collision is reported,
\* with the first such stock of the list; a stock reported is never the
\* edited one and always has the proposed ticker without regard to case.
C13_CaseInsensitiveDetection ==
    modal.open =>
        /\ ( /\ modal.newTicker # ""
             /\ modal.newTicker # Edited.ticker
             /\ Colliding(AllStocks, modal.newTicker) # {}
             => LET first == CHOOSE i \in Colliding(AllStocks, modal.newTicker) :
                                \A j \in Colliding(AllStocks, modal.newTicker) :
                                    i <= j
                IN  modal.duplicateStock = Some(AllStocks[first]) )
        /\ ( modal.duplicateStock # None
             => /\ modal.duplicateStock[1].id # Edited.id
                /\ toUpperCase(modal.duplicateStock[1].ticker)
                       = toUpperCase(modal.newTicker) )

\* a collision is reported with a stock whose ticker differs from the
\* proposed one in case only
C13_Witness ==
    /\ modal.open
    /\ modal.duplicateStock # None
    /\ modal.duplicateStock[1].ticker # modal.newTicker
    /\ toUpperCase(modal.duplicateStock[1].ticker)
           = toUpperCase(modal.newTicker)

\* in this step the user confirms: handleSubmit starts
Confirms == ~ modal.loading /\ modal'.loading

\* the proposed ticker differs from the current one and no other stock of the
\* page has it, without regard to case
NoCollision ==
    /\ modal.open
    /\ modal.newTicker # Edited.ticker
    /\ Colliding(rows, modal.newTicker) = {}

\* C14: when the proposed ticker differs from the current ticker and matches
\* no other stock's ticker without regard to case, there is no merge plan,
\* and confirming issues exactly one backend call: the field patch that sets
\* 'ticker' of the edited stock's id to the upper-cased proposed ticker; the
\* handleSubmit so started issues no further call.
C14_SimpleRenameIsOnePatch ==
    /\ [](NoCollision =>
            modal.duplicateStock = None /\ modal.mergePreview = None)
    /\ [][ /\ Confirms /\ NoCollision
              => /\ sent' = <<request("updateField", Edited.id, "ticker",
                                      Str(toUpperCase(modal.newTicker)), "")>>
                 /\ submit'.pc = "patch"
           /\ submit.pc = "patch" => sent' = sent /\ Len(sent) = 1 ]_vars

\* a simple rename to a ticker no stock has was confirmed and has succeeded
\* with the one patch
C14_Witness ==
    /\ modal.done = "success"
    /\ Colliding(rows, "goog") = {}
    /\ sent = <<request("updateField", Edited.id, "ticker", Str("GOOG"), "")>>

\* how many of the 14 fields of a stock hold a value, counted independently
\* of countFilledFields
FilledCount(stock) ==
    Cardinality({field \in FieldSet :
        /\ stock.f[field] # JNull
        /\ stock.f[field] # JUndefined
        /\ stock.f[field] # Str("")
        /\ stock.f[field] # Num(0)})

\* the plan the modal holds
Plan == modal.mergePreview[1]

\* C15: in every merge plan for edited stock A and colliding stock B, target
\* and source are A and B, one each; the target has at least as many filled
\* fields as the source; the target is B exactly when B has strictly more
\* filled fields than A, and A on equal counts.
C15_TargetSelection ==
    modal.mergePreview # None =>
        LET A == Edited
            B == modal.duplicateStock[1]
        IN  /\ modal.duplicateStock # None
            /\ A.id # B.id
            /\ Plan.target.stock.id # Plan.source.stock.id
            /\ {Plan.target.stock, Plan.source.stock} = {A, B}
            /\ FilledCount(Plan.target.stock) >= FilledCount(Plan.source.stock)
            /\ Plan.target.filledFields = FilledCount(Plan.target.stock)
            /\ Plan.source.filledFields = FilledCount(Plan.source.stock)
            /\ Plan.target.stock = B <=> FilledCount(B) > FilledCount(A)
            /\ FilledCount(A) = FilledCount(B) => Plan.target.stock = A

\* a plan for two stocks with equally many filled fields, not all the same
\* fields, keeps the edited stock
C15_Witness ==
    /\ modal.mergePreview # None
    /\ FilledCount(Edited) = FilledCount(modal.duplicateStock[1])
    /\ FilledCount(Edited) > 0
    /\ Plan.target.stock = Edited
    /\ Plan.target.emptyFields # Plan.source.emptyFields

\* a value countFilledFields takes for empty, written out
Blank(value) == value \in {JNull, JUndefined, Str(""), Num(0)}

\* the fields a plan transfers: empty in the target, not empty in the source
Transferred(plan) ==
    {field \in FieldSet :
        Blank(plan.target.stock.f[field])
        /\ ~ Blank(plan.source.stock.f[field])}

\* C16: the body of the update sent to the target holds 'ticker' (the
\* upper-cased proposed ticker) and exactly the fields that were empty in the
\* target and not empty in the source, each with the source's value; once the
\* backend has applied it the target holds the source's value for each
\* transferred field, and every other field of the target is as it was.
C16_UpdatePayload ==
    [][ /\ Confirms /\ modal.mergePreview # None /\ modal.duplicateStock # None
           => /\ Len(sent') = 1
              /\ sent'[1].call = "update"
              /\ sent'[1].id = Plan.target.stock.id
              /\ DOMAIN sent'[1].data = {"ticker"} \cup Transferred(Plan)
              /\ sent'[1].data["ticker"] = Str(toUpperCase(modal.newTicker))
              /\ \A field \in Transferred(Plan) :
                    sent'[1].data[field] = Plan.source.stock.f[field]
        /\ submit.pc = "update" /\ submit'.pc = "delete"
           => LET plan == submit.plan[1]
                  id == plan.target.stock.id
              IN  \A field \in FieldSet :
                     stocksDb'[id].rec.f[field] =
                        IF field \in Transferred(plan)
                        THEN plan.source.stock.f[field]
                        ELSE stocksDb[id].rec.f[field] ]_vars

\* an update that transfers a field and leaves a filled field of the target
\* alone has been applied
C16_Witness ==
    /\ submit.pc = "delete"
    /\ Transferred(submit.plan[1]) # {}
    /\ DOMAIN sent[1].data = {"ticker"} \cup Transferred(submit.plan[1])
    /\ \E field \in FieldSet :
          /\ ~ Blank(submit.plan[1].target.stock.f[field])
          /\ ~ Blank(submit.plan[1].source.stock.f[field])

\* the stock records of the page and of the backend
Records ==
    {rows[i] : i \in 1..Len(rows)} \cup {stocksDb[i].rec : i \in DOMAIN stocksDb}

\* the fields a sequence of field names lists
Listed(seq) == {seq[i] : i \in 1..Len(seq)}

\* C17: for every stock record countFilledFields splits the 14 fields: a
\* field is in emptyFields iff its value is null, undefined, the empty
\* string or numeric zero, otherwise it is counted; so count plus the length
\* of emptyFields is 14, and emptyFields lists no field twice.
C17_CountPartitionsFields ==
    \A stock \in Records :
        LET r == countFilledFields(stock)
        IN  /\ Listed(r.emptyFields) =
                   {field \in FieldSet : Blank(stock.f[field])}
            /\ \A i, j \in 1..Len(r.emptyFields) :
                   i # j => r.emptyFields[i] # r.emptyFields[j]
            /\ r.count =
                   Cardinality({field \in FieldSet : ~ Blank(stock.f[field])})
            /\ r.count + Len(r.emptyFields) = 14
            /\ Cardinality(FieldSet) = 14

\* a record with filled fields and with empty fields of all four kinds: null,
\* undefined, the empty string and zero
C17_Witness ==
    \E stock \in Records :
        /\ countFilledFields(stock).count > 0
        /\ {JNull, JUndefined, Str(""), Num(0)} \subseteq
               {stock.f[field] : field \in FieldSet}

\* C18: the reason passed to the delete of the source is "Merged into <T>
\* (<C>)" with T the ticker the target carries after the merge (the
\* upper-cased proposed ticker, as the update sent it) and C the target's
\* company name (the code violates this: it writes the ticker the target had
\* before the merge).
C18_ReasonNamesSurvivingTicker ==
    submit.pc = "delete" =>
        /\ Len(sent) = 2
        /\ sent[2].call = "delete"
        /\ sent[2].reason =
              "Merged into " \o sent[1].data["ticker"].s \o " (" \o
              inTemplate(submit.plan[1].target.stock.f["company_name"]) \o ")"

\* the update of the target was applied and the delete of the source failed:
\* handleSubmit has ended without success after issuing both calls
PartlyApplied ==
    submit.pc = "idle" /\ Len(sent) = 2 /\ modal.done = "none"

\* two active stocks of the backend share a ticker, without regard to case
SharedTicker == ~ UniqueTickers(activeFrom(stocksDb, 1))

\* C19 as stated: in the state in which the update has succeeded and the
\* delete has failed, two active records share the same ticker.
C19_PartialMergeSharesTicker == PartlyApplied => SharedTicker

\* C19: the state in which the update of the target has succeeded and the
\* delete of the source has failed is reachable; in it both records are
\* active and the target carries the new ticker; the two share a ticker when
\* the target is the edited stock, while with the colliding stock as target
\* the source is the edited stock, whose record the merge never writes, so
\* that no ticker need be shared; a modal still open shows an error with
\* loading false; and no call follows (no compensating update, rollback or
\* retry) unless the user confirms again.
C19_PartialMerge ==
    /\ [](PartlyApplied =>
            LET target == stocksDb[sent[1].id]
                source == stocksDb[sent[2].id]
            IN  /\ sent[1].call = "update" /\ sent[2].call = "delete"
                /\ target.active /\ source.active
                /\ target.rec.ticker = sent[1].data["ticker"].s
                /\ sent[1].id = Edited.id =>
                      /\ toUpperCase(source.rec.ticker)
                             = toUpperCase(target.rec.ticker)
                      /\ SharedTicker
                /\ sent[1].id # Edited.id => sent[2].id = Edited.id
                /\ modal.open => modal.error # "" /\ ~ modal.loading)
    /\ [][submit.pc \in {"update", "delete"} =>
            LET source == submit.plan[1].source.stock.id
            IN  stocksDb'[source].rec = stocksDb[source].rec]_vars
    /\ [][PartlyApplied =>
            /\ stocksDb' = stocksDb
            /\ sent' = sent \/ Confirms]_vars

\* the delete failed after the update of the colliding stock: the modal shows
\* the error and no two active stocks share a ticker
C19_Witness ==
    /\ PartlyApplied
    /\ modal.open
    /\ modal.error = "Failed to update ticker"
    /\ sent[1].id # Edited.id
    /\ ~ SharedTicker


\* a step in which a call of handleSubmit is rejected and its catch runs
Rejected == submit.pc # "idle" /\ submit'.pc = "idle" /\ submit'.err # None

\* the message for the rejection: the server's text when there is one
Message(e) ==
    IF e.t = "string" /\ e.s # "" THEN e.s ELSE "Failed to update ticker"

C21_OwnTickerIsNoCollision ==
    modal.open /\ toUpperCase(modal.newTicker) = toUpperCase(Edited.ticker) =>
        modal.duplicateStock = None /\ modal.mergePreview = None


\* C22: on the merge path the update is the first call and goes to the id of
\* the target; the delete goes to the id of the source and is issued only in
\* the step in which the update is applied and resolves; a failed update ends
\* the confirm with no delete; and a confirm issues each call at most once.
C22_UpdateThenDelete ==
    /\ [](submit.pc \in {"update", "delete"} =>
            /\ submit.plan # None
            /\ sent[1].call = "update"
            /\ sent[1].id = submit.plan[1].target.stock.id
            /\ Len(sent) = IF submit.pc = "update" THEN 1 ELSE 2
            /\ Len(sent) = 2 =>
                  /\ sent[2].call = "delete"
                  /\ sent[2].id = submit.plan[1].source.stock.id)
    /\ [][sent' # sent =>
            \/ /\ submit.pc = "idle" /\ submit'.pc \in {"update", "patch"}
               /\ Len(sent') = 1
            \/ /\ submit.pc = "update" /\ submit'.pc = "delete"
               /\ submit'.err = None
               /\ SubSeq(sent', 1, 1) = sent /\ Len(sent') = 2
               /\ stocksDb'[sent[1].id].rec.ticker
                      = sent[1].data["ticker"].s]_vars
    /\ [][submit.pc = "update" /\ submit'.err # None =>
            submit'.pc = "idle" /\ sent' = sent]_vars

\* the update of a merge has failed: the confirm has ended and the update is
\* the only call it issued
C22_Witness ==
    /\ submit.pc = "idle" /\ submit.err # None
    /\ Len(sent) = 1 /\ sent[1].call = "update"
    /\ modal.mergePreview # None
    /\ sent[1].id = modal.mergePreview[1].target.stock.id


\* the plan the effect computes for this proposed ticker: the first stock of
\* allStocks, other than the edited one, with that ticker without regard to
\* case, paired with the edited stock
PlanIsFor(duplicate, plan, ticker) ==
    IF ticker # "" /\ ticker # Edited.ticker /\ Colliding(AllStocks, ticker) # {}
    THEN LET first == CHOOSE i \in Colliding(AllStocks, ticker) :
                          \A j \in Colliding(AllStocks, ticker) : i <= j
         IN  /\ duplicate = Some(AllStocks[first])
             /\ plan # None
             /\ {plan[1].target.stock, plan[1].source.stock}
                    = {Edited, AllStocks[first]}
             /\ plan[1].target.stock # plan[1].source.stock
    ELSE duplicate = None /\ plan = None

\* C23: while the modal is open, duplicateStock and mergePreview are both set
\* exactly when the current proposed ticker is not empty, differs from the
\* ticker of the stock and collides with another stock of allStocks, and the
\* plan held is the one for the current proposed ticker, the stock and
\* allStocks; the plan a confirm applies is the one held when it starts,
\* which is the plan for the ticker it sends.
C23_PlanFollowsInput ==
    /\ [](modal.open =>
            PlanIsFor(modal.duplicateStock, modal.mergePreview,
                      modal.newTicker))
    /\ [][Confirms =>
            /\ submit'.ticker = modal.newTicker
            /\ submit'.plan = modal.mergePreview
            /\ sent'[1].call = IF modal.mergePreview = None
                               THEN "updateField" ELSE "update"]_vars
    /\ [](submit.pc # "idle" =>
            /\ submit.stock = modal.stock
            /\ submit.plan # None =>
                  /\ sent[1].data["ticker"].s = toUpperCase(submit.ticker)
                  /\ \E i \in Colliding(AllStocks, submit.ticker) :
                        {submit.plan[1].target.stock,
                         submit.plan[1].source.stock} = {Edited, AllStocks[i]})

\* after a merge that failed at its update, the user has typed a ticker with
\* no collision: the plan of the earlier ticker is gone
C23_Witness ==
    /\ modal.open
    /\ submit.pc = "idle" /\ submit.err # None
    /\ sent[1].call = "update"
    /\ modal.newTicker # "" /\ modal.newTicker # Edited.ticker
    /\ modal.duplicateStock = None /\ modal.mergePreview = None


\* C28: within one edit, while a call of a confirm is in flight the open modal
\* has loading true, so that the submit button is disabled and no second
\* confirm starts: a confirm starts only when no handleSubmit is running, and
\* a running handleSubmit keeps its stock, ticker and plan and only moves
\* from its update to its delete or to its end.
C28_OneConfirmInFlight ==
    /\ [](submit.pc # "idle" /\ modal.open => modal.loading)
    /\ [][Confirms => submit.pc = "idle" /\ submit'.pc # "idle"]_vars
    /\ [][submit.pc # "idle" /\ submit' # submit =>
            \/ submit'.pc = "idle"
            \/ /\ submit.pc = "update" /\ submit'.pc = "delete"
               /\ submit'.stock = submit.stock
               /\ submit'.ticker = submit.ticker
               /\ submit'.plan = submit.plan]_vars
    /\ [][submit.pc # "idle" /\ sent' # sent =>
            SubSeq(sent', 1, Len(sent)) = sent]_vars

\* the delete of a merge is in flight and the user has typed another
\* ticker: only loading keeps the submit button disabled
C28_Witness ==
    /\ submit.pc = "delete"
    /\ modal.open /\ modal.loading
    /\ modal.newTicker # submit.ticker
    /\ trim(modal.newTicker) # ""
    /\ modal.mergePreview # None
    /\ modal.mergePreview # submit.plan


\* C25: get(key, ttl) changes nothing in the cache except that it removes the
\* entry of key when that entry is expired: on a hit the cache, the
\* timestamp of the entry included, is unchanged; on a miss for a key with no
\* entry the cache is unchanged; the entries of other keys are never touched.
C25_GetFrame ==
    [][\A key \in Keys, ttl \in TTLs :
          IsGet(key, ttl) =>
              /\ last'.ret # Null => cache' = cache
              /\ key \notin DOMAIN cache => cache' = cache
              /\ DOMAIN cache' \subseteq DOMAIN cache
              /\ \A k \in DOMAIN cache \ {key} :
                    k \in DOMAIN cache' /\ cache'[k] = cache[k]
              /\ cache' # cache =>
                    /\ key \in DOMAIN cache
                    /\ clock - cache[key].timestamp > ttl
                    /\ DOMAIN cache' = DOMAIN cache \ {key}]_vars

\* a get() has just hit an entry stored earlier, with an entry of the other
\* key in the Map: the entry still has the timestamp of its set()
C25_Witness ==
    /\ last.op = "get"
    /\ last.ret # Null
    /\ DOMAIN cache = Keys
    /\ cache[last.key].timestamp < last.at
    /\ last.at = clock


\* the clock values tried after a set() at time t for a get() with ttl
After(t, ttl) == {t, t + 1, t + ttl, t + ttl + 1, t + StatusTTL + 1}

\* C26: set(key, v2) at time t over an entry (v1, t0) of the same key, still
\* valid or already expired, leaves the entry (v2, t) and no other change:
\* get(key, ttl) then returns v2 at every clock value up to t + ttl, and
\* returns v2 or null, never v1, at any later one; the Map has one entry for
\* the key.
C26_SetOverwrites ==
    [][\A key \in Keys, v2 \in Payloads :
          IsSet(key, v2) /\ key \in DOMAIN cache =>
              /\ cache'[key] = [data |-> v2, timestamp |-> clock]
              /\ DOMAIN cache' = DOMAIN cache
              /\ \A k \in DOMAIN cache \ {key} : cache'[k] = cache[k]
              /\ \A ttl \in TTLs : \A now \in After(clock, ttl) :
                    LET r == get(cache', key, ttl, now)
                    IN  /\ now <= clock + ttl => r.ret = v2
                        /\ r.ret \in {v2, Null}
                        /\ cache[key].data # v2 => r.ret # cache[key].data]_vars

\* a set() has just replaced an entry that had expired for the summary TTL
\* and held another payload
C26_Witness ==
    /\ last.op = "set"
    /\ last.found
    /\ last.at = clock
    /\ clock > SummaryTTL
    /\ last.key \in DOMAIN cache
    /\ cache[last.key] = [data |-> last.ret, timestamp |-> clock]
    /\ \E k \in DOMAIN cache : k # last.key /\ cache[k].data # last.ret


\* no async function of the page is running
AllIdle == \A p \in Procs : proc[p].pc = "idle"

Arrives(p, key) ==
    /\ proc[p].pc = sentAt(key)
    /\ proc'[p].pc = IF key = SummaryKey THEN "getAll" ELSE "idle"
    /\ failed' = failed

\* C27: in every reachable state of the page the keys of the cache are among
\* 'portfolio:summary' and 'api:status', and each entry is the body of a
\* response of its key's endpoint that arrived successfully: it was stored
\* in the step in which that response arrived, with a body the backend held
\* between the request and the response, and it is the latest such response
\* of that endpoint.
C27_OnlyReceivedBodies ==
    /\ [](/\ DOMAIN cache \subseteq Keys
          /\ \A k \in DOMAIN cache :
                /\ cache[k].data \in 1..db
                /\ cache[k].timestamp = completed[k]
                /\ cache[k].timestamp <= clock)
    /\ [][\A k \in Keys :
            (k \in DOMAIN cache' /\
               (k \notin DOMAIN cache \/ cache'[k] # cache[k])) =>
                \E p \in Procs :
                    /\ Arrives(p, k)
                    /\ cache'[k].data \in proc[p].sentDb .. db
                    /\ cache'[k].timestamp = clock
                    /\ \A j \in Keys \ {k} :
                          /\ (j \in DOMAIN cache') = (j \in DOMAIN cache)
                          /\ j \in DOMAIN cache => cache'[j] = cache[j]]_vars

\* both endpoints are cached, with different bodies, after a GET of a cached
\* endpoint has failed
C27_Witness ==
    /\ DOMAIN cache = Keys
    /\ failed > 0
    /\ cache[SummaryKey].data # cache[StatusKey].data
    /\ cache[SummaryKey].timestamp # cache[StatusKey].timestamp

----------------------------------------------------------------------------
(* The column settings: hooks/useColumnSettings.ts *)

\* saveSettings is called at most this many times in a run
MaxCalls == 3

\* the run ends at this time, in milliseconds
MaxTime == 5000

\* the delay of the save timer: the debounce of saveColumnSettings
Debounce == 1000

\* the delay of the timer that sets saveStatus back to 'idle'
ResetDelay == 3000

\* the time advances by half a debounce or by a whole one
TimeSteps == {500, Debounce}

\* the settings handed to saveSettings: a column hidden, the columns
\* reordered, every column hidden
Configs ==
    { <<Column("ticker", TRUE), Column("sector", FALSE)>>,
      <<Column("sector", TRUE), Column("ticker", TRUE)>>,
      <<Column("ticker", FALSE), Column("sector", FALSE)>> }

\* JSON.stringify of one ColumnConfig
stringifyColumn(col) ==
    "{\"id\":\"" \o col.id \o "\",\"visible\":"
        \o (IF col.visible THEN "true" ELSE "false") \o "}"

RECURSIVE stringifyFrom(_, _)
\* the elements of the array from the i-th on, separated by commas
stringifyFrom(cols, i) ==
    IF i > Len(cols) THEN ""
    ELSE IF i = Len(cols) THEN stringifyColumn(cols[i])
    ELSE stringifyColumn(cols[i]) \o "," \o stringifyFrom(cols, i + 1)

\* JSON.stringify(newSettings)
stringify(cols) == "[" \o stringifyFrom(cols, 1) \o "]"

\* setTimeout(callback, delay) at this moment: the timer it adds. kind: which
\* callback; json: the settingsJson the save callback holds; call: the
\* saveSettings call that set it
timer(kind, delay, json, call) ==
    [id |-> nextTimer, kind |-> kind, at |-> time + delay, json |-> json,
     call |-> call]

\* clearTimeout(saveTimerRef.current): nothing happens when the timer has
\* fired already
clearTimeout(ref) == {t \in timers : ref = None \/ t.id # ref[1]}

\* the hook's user is authenticated or not
HookInit ==
    /\ PageInit
    /\ stocksDb = <<>>
    /\ rows = <<>>
    /\ modal = Closed
    /\ submit = NotSubmitting
    /\ sent = <<>>
    /\ auth \in BOOLEAN
    /\ Mounted

\* a variant of saveColumnSettings that does not clear the pending timer
saveColumnSettings_noClear(newSettings) ==
    LET settingsJson == stringify(newSettings)
    IN  /\ Len(calls) < MaxCalls
        /\ columnSettings' = newSettings
        /\ localStorage' = Some(settingsJson)
        /\ calls' = Append(calls, [at |-> time, settings |-> newSettings])
        /\ nextTimer' = nextTimer + 1
        /\ IF auth
           THEN /\ saveStatus' = "saving"
                /\ saveError' = None
                /\ timers' = timers \cup
                       {timer("save", Debounce, settingsJson, Len(calls) + 1)}
                /\ saveTimerRef' = Some(nextTimer)
           ELSE /\ saveStatus' = "success"
                /\ timers' = timers \cup
                       {timer("reset", ResetDelay, "", Len(calls) + 1)}
                /\ UNCHANGED <<saveError, saveTimerRef>>
        /\ UNCHANGED <<auth, inflight, requests, time, pageVars, mergeVars>>

\* saveSettings(newSettings) up to the end of its synchronous part: the
\* state and localStorage are written; for an authenticated user the pending
\* save timer is cleared and a new one set, otherwise the save counts as done
saveColumnSettings(newSettings) ==
    LET settingsJson == stringify(newSettings)
    IN  /\ Len(calls) < MaxCalls
        /\ columnSettings' = newSettings
        /\ localStorage' = Some(settingsJson)
        /\ calls' = Append(calls, [at |-> time, settings |-> newSettings])
        /\ nextTimer' = nextTimer + 1
        /\ IF auth
           THEN /\ saveStatus' = "saving"
                /\ saveError' = None
                /\ timers' = clearTimeout(saveTimerRef) \cup
                       {timer("save", Debounce, settingsJson, Len(calls) + 1)}
                /\ saveTimerRef' = Some(nextTimer)
           ELSE /\ saveStatus' = "success"
                /\ timers' = timers \cup
                       {timer("reset", ResetDelay, "", Len(calls) + 1)}
                /\ UNCHANGED <<saveError, saveTimerRef>>
        /\ UNCHANGED <<auth, inflight, requests, time, pageVars, mergeVars>>

\* the save timer fires: its callback sends
\* settingsAPI.saveColumnSettings(settingsJson)
SaveTimerFires(t) ==
    /\ t \in timers /\ t.kind = "save" /\ t.at <= time
    /\ timers' = timers \ {t}
    /\ inflight' = inflight \cup {[call |-> t.call, json |-> t.json]}
    /\ requests' = Append(requests,
                          [call |-> t.call, json |-> t.json, at |-> time])
    /\ UNCHANGED <<auth, columnSettings, saveStatus, saveError, saveTimerRef,
                   localStorage, nextTimer, calls, time, pageVars, mergeVars>>

\* the request is answered: setSaveStatus('success'), and a timer is set
\* that will set the status back to 'idle'
SaveResolves(r) ==
    /\ r \in inflight
    /\ inflight' = inflight \ {r}
    /\ saveStatus' = "success"
    /\ timers' = timers \cup {timer("reset", ResetDelay, "", r.call)}
    /\ nextTimer' = nextTimer + 1
    /\ UNCHANGED <<auth, columnSettings, saveError, saveTimerRef,
                   localStorage, requests, calls, time, pageVars, mergeVars>>

\* the request is rejected: the catch sets the status and the message
SaveRejects(r, e) ==
    /\ r \in inflight
    /\ inflight' = inflight \ {r}
    /\ saveStatus' = "error"
    /\ saveError' = Some(IF isEmptyValue(e)
                         THEN "Failed to save settings" ELSE e.s)
    /\ UNCHANGED <<auth, columnSettings, saveTimerRef, localStorage, timers,
                   nextTimer, requests, calls, time, pageVars, mergeVars>>

\* a variant of ResetTimerFires that leaves the status of a save that is
\* pending
ResetTimerFires_guarded(t) ==
    /\ t \in timers /\ t.kind = "reset" /\ t.at <= time
    /\ timers' = timers \ {t}
    /\ saveStatus' = IF saveStatus = "saving" THEN saveStatus ELSE "idle"
    /\ UNCHANGED <<auth, columnSettings, saveError, saveTimerRef,
                   localStorage, nextTimer, inflight, requests, calls, time,
                   pageVars, mergeVars>>

\* a reset timer fires: setSaveStatus('idle')
ResetTimerFires(t) ==
    /\ t \in timers /\ t.kind = "reset" /\ t.at <= time
    /\ timers' = timers \ {t}
    /\ saveStatus' = "idle"
    /\ UNCHANGED <<auth, columnSettings, saveError, saveTimerRef,
                   localStorage, nextTimer, inflight, requests, calls, time,
                   pageVars, mergeVars>>

\* time passes, up to the next moment a timer is due; a timer that is due
\* fires before time goes on
Advance(d) ==
    /\ time < MaxTime
    /\ \A t \in timers : t.at > time
    /\ LET due == {t.at : t \in timers}
           next == IF \E a \in due : a < time + d
                   THEN CHOOSE a \in due : \A b \in due : a <= b
                   ELSE time + d
       IN  time' = next
    /\ UNCHANGED <<auth, columnSettings, saveStatus, saveError, saveTimerRef,
                   localStorage, timers, nextTimer, inflight, requests, calls,
                   pageVars, mergeVars>>

HookNext ==
    \/ \E newSettings \in Configs : saveColumnSettings(newSettings)
    \/ \E t \in timers : SaveTimerFires(t)
    \/ \E r \in inflight : SaveResolves(r)
    \/ \E r \in inflight, e \in ServerErrors : SaveRejects(r, e)
    \/ \E t \in timers : ResetTimerFires(t)
    \/ \E d \in TimeSteps : Advance(d)

\* saveSettings called at any moments, with the timers and the answers of
\* the backend
HookSpec == HookInit /\ [][HookNext]_vars

----------------------------------------------------------------------------
(* Claims about the column settings, checked under HookSpec *)

\* a save is pending: its timer has not fired, or its request is unanswered
SavePending == (\E t \in timers : t.kind = "save") \/ inflight # {}

\* C29: for an authenticated user, whenever a save is pending in its debounce
\* window or its request is in flight, saveStatus is 'saving' (the code
\* violates this: the reset timer of an earlier save, and the answer to an
\* earlier request, write saveStatus while a later save is pending).
C29_SavingWhilePending ==
    auth /\ SavePending => saveStatus = "saving"


\* the calls that were followed by another call before their debounce ended
Superseded ==
    {j \in 1..(Len(calls) - 1) : calls[j + 1].at - calls[j].at < Debounce}

\* the requests sent for the j-th call
RequestsOf(j) == {i \in 1..Len(requests) : requests[i].call = j}

====
